---- MODULE Spec2Model ----
(***************************************************************************)
(* TaskScheduler of src/task_track.py: tasks are sorted by (priority, due  *)
(* date) and carved into the available time slots by schedule_tasks and    *)
(* split_up_tasks.  Times are seconds on a one-minute grid (the loader     *)
(* parses "%Y-%m-%d %H:%M"), durations are minutes, due dates are day      *)
(* numbers.  A task's "name" is its position in the loaded file: it stands *)
(* for the identity of the task dictionary.                                *)
(***************************************************************************)
EXTENDS Integers, Sequences, FiniteSets, TLC

\* ---- bounds of the model ------------------------------------------------
MaxTasks == 2
MaxSlots == 3
MaxTime == 3
MaxDuration == 3
MaxPriority == 2
MaxDue == 2
MaxPasses == 2
RawMaxSlots == 2
RawMaxTime == 2

\* ---- program constant ---------------------------------------------------
SecondsPerMinute == 60

VARIABLES
  tasks,              \* self.tasks
  time_slots,         \* self.time_slots: sequence of <<start, end>>
  schedule,           \* self.schedule: sequence of fragments
  unscheduled_tasks,  \* local list of schedule_tasks, argument of split_up_tasks
  task_idx,           \* position of "for task in self.tasks"
  entry_idx,          \* position of "for entry in unscheduled_tasks"
  i,                  \* slot index of the inner loop (1-based)
  range_len,          \* len(self.time_slots) taken when the inner loop starts
  remaining_time,     \* local remaining_time of the task being walked
  pc,                 \* control point
  input_slots,        \* history: the slots as loaded
  slot_ids,           \* history: input position of each slot of time_slots
  carved_from,        \* history: input position of the slot of each fragment
  passes,             \* history: number of schedule_tasks calls started
  pass_base,          \* history: length of the ledger when the pass started
  noop_rerun,         \* history: the running pass was started on fully
                      \* allocated tasks and an empty pool
  visits              \* history: inner-loop iterations of the running phase
                      \* (the loop of schedule_tasks, then of split_up_tasks)

vars == <<tasks, time_slots, schedule, unscheduled_tasks, task_idx, entry_idx,
          i, range_len, remaining_time, pc, input_slots, slot_ids,
          carved_from, passes, pass_base, noop_rerun, visits>>

\* ---- sequences ----------------------------------------------------------
RECURSIVE Reverse(_)
Reverse(s) == IF s = <<>> THEN <<>> ELSE Append(Reverse(Tail(s)), Head(s))

PopFront(s, k) == Tail(s)

\* list.pop(k)
Pop(s, k) == [j \in 1..(Len(s) - 1) |-> IF j < k THEN s[j] ELSE s[j + 1]]

Min(a, b) == IF a <= b THEN a ELSE b

\* ---- the sort of schedule_tasks -----------------------------------------
\* key of the sort: (priority, due date), compared as Python compares tuples
KeyLess(a, b) ==
  \/ a.priority < b.priority
  \/ a.priority = b.priority /\ a.due_date < b.due_date

\* stable ascending sort: x goes after every element whose key is not greater
RECURSIVE InsertStable(_, _)
InsertStable(x, s) ==
  IF s = <<>> THEN <<x>>
  ELSE IF KeyLess(x, Head(s)) THEN <<x>> \o s
       ELSE <<Head(s)>> \o InsertStable(x, Tail(s))

RECURSIVE StableSortAsc(_)
StableSortAsc(s) ==
  IF s = <<>> THEN <<>>
  ELSE InsertStable(s[Len(s)], StableSortAsc(SubSeq(s, 1, Len(s) - 1)))

SortAscending(s) == StableSortAsc(s)

SortThenReverse(s) == Reverse(StableSortAsc(s))

\* list.sort(key=..., reverse=True): the list is reversed, sorted stably in
\* ascending order and reversed again, so equal keys keep their order
SortTasks(s) == Reverse(StableSortAsc(Reverse(s)))

\* ---- the carve ----------------------------------------------------------
\* (end_time - start_time).total_seconds() // 60
slot_duration(start_time, end_time) == (end_time - start_time) \div SecondsPerMinute

\* timedelta(minutes=m)
timedelta(m) == m * SecondsPerMinute

WholeSlot(remaining, duration) == duration

RemainingOnly(remaining, duration) == remaining

time_to_schedule(remaining, duration) == Min(remaining, duration)

KeepSlotStart(start_time, task_end_time, end_time) == <<start_time, end_time>>

KeepFragment(start_time, task_end_time, end_time) == <<start_time, task_end_time>>

\* self.time_slots[i] = (task_end_time, end_time)
shrink_slot(start_time, task_end_time, end_time) == <<task_end_time, end_time>>

RangeOffByOne(slots) == Len(slots) + 1

\* range(len(self.time_slots)), evaluated once when the inner loop starts
slot_range(slots) == Len(slots)

Fragment(task, start_time, end_time) ==
  [task |-> task, start_time |-> start_time, end_time |-> end_time]

InsertFirst(ledger, fragment) == <<fragment>> \o ledger

\* self.schedule.append(...)
append(ledger, fragment) == Append(ledger, fragment)

IgnoreSlotWidth(remaining, duration) == remaining > 0

\* "if remaining_time > 0 and slot_duration > 0" (split_up_tasks tests the
\* same two conditions in the other order)
can_schedule(remaining, duration) == remaining > 0 /\ duration > 0

\* ---- inputs of get_data -------------------------------------------------
TaskLists ==
  UNION {
    { [k \in 1..n |-> [name |-> k, priority |-> f[k][1], due_date |-> f[k][2],
                       duration |-> f[k][3]]]
      : f \in [1..n -> (1..MaxPriority) \X (1..MaxDue) \X (0..MaxDuration)] }
    : n \in 0..MaxTasks }

Minutes == { timedelta(m) : m \in 0..MaxTime }

Overlap(a, b) == a[1] < b[2] /\ b[1] < a[2]

Disjoint(sl) ==
  \A a, b \in 1..Len(sl) : a # b => ~Overlap(sl[a], sl[b])

\* slots as the loader's input contract has them: start < end, mutually
\* disjoint, in any order
SlotLists ==
  UNION {
    { sl \in [1..n -> { p \in Minutes \X Minutes : p[1] < p[2] }] : Disjoint(sl) }
    : n \in 0..MaxSlots }

\* ---- state after construction (__init__) --------------------------------
Init ==
  /\ tasks = <<>>
  /\ time_slots = <<>>
  /\ schedule = <<>>
  /\ unscheduled_tasks = <<>>
  /\ task_idx = 0
  /\ entry_idx = 0
  /\ i = 0
  /\ range_len = 0
  /\ remaining_time = 0
  /\ pc = "init"
  /\ input_slots = <<>>
  /\ slot_ids = <<>>
  /\ carved_from = <<>>
  /\ passes = 0
  /\ pass_base = 0
  /\ noop_rerun = FALSE
  /\ visits = 0

\* get_data: the tasks and the parsed slots of the file replace the empty
\* lists (a missing file leaves both lists empty)
get_data ==
  /\ pc = "init"
  /\ \E ts \in TaskLists, sl \in SlotLists :
       /\ tasks' = ts
       /\ time_slots' = sl
       /\ input_slots' = sl
       /\ slot_ids' = [k \in 1..Len(sl) |-> k]
  /\ pc' = "loaded"
  /\ UNCHANGED <<schedule, unscheduled_tasks, task_idx, entry_idx, i,
                 range_len, remaining_time, carved_from, passes, pass_base, noop_rerun,
                 visits>>

\* minutes of the fragments of the task named n in the ledger led
RECURSIVE Allocated(_, _)
Allocated(n, led) ==
  IF led = <<>> THEN 0
  ELSE (IF Head(led).task.name = n
        THEN slot_duration(Head(led).start_time, Head(led).end_time)
        ELSE 0) + Allocated(n, Tail(led))

\* entry of schedule_tasks: the sort and the empty unscheduled list
BeginPass ==
  /\ tasks' = SortTasks(tasks)
  /\ unscheduled_tasks' = <<>>
  /\ task_idx' = 1
  /\ entry_idx' = 0
  /\ pc' = "main_for_task"
  /\ passes' = passes + 1
  /\ pass_base' = Len(schedule)
  /\ visits' = 0
  /\ UNCHANGED <<time_slots, schedule, i, range_len, remaining_time,
                 input_slots, slot_ids, carved_from>>

schedule_tasks ==
  /\ pc = "loaded"
  /\ BeginPass
  /\ noop_rerun' = FALSE

\* for task in self.tasks: remaining_time = task["duration"]
MainForTask ==
  /\ pc = "main_for_task"
  /\ task_idx <= Len(tasks)
  /\ remaining_time' = tasks[task_idx].duration
  /\ range_len' = slot_range(time_slots)
  /\ i' = 1
  /\ pc' = "main_for_slot"
  /\ UNCHANGED <<tasks, time_slots, schedule, unscheduled_tasks, task_idx,
                 entry_idx, input_slots, slot_ids, carved_from, passes,
                 pass_base, noop_rerun,
                 visits>>

\* one iteration of the inner loop of schedule_tasks.  Reading
\* self.time_slots[i] past the end raises IndexError: the pass has no
\* further step.
MainForSlot ==
  /\ pc = "main_for_slot"
  /\ i <= range_len
  /\ i <= Len(time_slots)
  /\ visits' = visits + 1
  /\ LET start_time == time_slots[i][1]
         end_time == time_slots[i][2]
         duration == slot_duration(start_time, end_time)
     IN IF can_schedule(remaining_time, duration)
        THEN LET minutes == time_to_schedule(remaining_time, duration)
                 task_end_time == start_time + timedelta(minutes)
                 new_slot == shrink_slot(start_time, task_end_time, end_time)
             IN /\ schedule' = append(schedule,
                       Fragment(tasks[task_idx], start_time, task_end_time))
                /\ carved_from' = Append(carved_from, slot_ids[i])
                /\ remaining_time' = remaining_time - minutes
                /\ IF new_slot[1] >= end_time
                   THEN /\ time_slots' = Pop(time_slots, i)
                        /\ slot_ids' = Pop(slot_ids, i)
                        /\ pc' = "main_after_slots"
                        /\ i' = 0
                        /\ range_len' = 0
                   ELSE /\ time_slots' = [time_slots EXCEPT ![i] = new_slot]
                        /\ i' = i + 1
                        /\ UNCHANGED <<slot_ids, pc, range_len>>
        ELSE /\ i' = i + 1
             /\ UNCHANGED <<schedule, carved_from, remaining_time, time_slots,
                            slot_ids, pc, range_len>>
  /\ UNCHANGED <<tasks, unscheduled_tasks, task_idx, entry_idx, input_slots,
                 passes, pass_base, noop_rerun>>

\* after the inner loop (range exhausted or break): a task with time left
\* is recorded as unscheduled
MainAfterSlots ==
  /\ \/ pc = "main_after_slots"
     \/ pc = "main_for_slot" /\ i > range_len
  /\ unscheduled_tasks' =
       IF remaining_time > 0
       THEN Append(unscheduled_tasks,
                   [task |-> tasks[task_idx], remaining_time |-> remaining_time])
       ELSE unscheduled_tasks
  /\ task_idx' = task_idx + 1
  /\ pc' = "main_for_task"
  /\ i' = 0
  /\ range_len' = 0
  /\ remaining_time' = 0
  /\ UNCHANGED <<tasks, time_slots, schedule, entry_idx, input_slots,
                 slot_ids, carved_from, passes, pass_base, noop_rerun,
                 visits>>

\* self.split_up_tasks(unscheduled_tasks)
CallSplit ==
  /\ pc = "main_for_task"
  /\ task_idx > Len(tasks)
  /\ pc' = "split_for_entry"
  /\ entry_idx' = 1
  /\ task_idx' = 0
  /\ visits' = 0
  /\ UNCHANGED <<tasks, time_slots, schedule, unscheduled_tasks, i, range_len,
                 remaining_time, input_slots, slot_ids, carved_from, passes,
                 pass_base, noop_rerun>>

\* for entry in unscheduled_tasks
SplitForEntry ==
  /\ pc = "split_for_entry"
  /\ entry_idx <= Len(unscheduled_tasks)
  /\ remaining_time' = unscheduled_tasks[entry_idx].remaining_time
  /\ range_len' = slot_range(time_slots)
  /\ i' = 1
  /\ pc' = "split_for_slot"
  /\ UNCHANGED <<tasks, time_slots, schedule, unscheduled_tasks, task_idx,
                 entry_idx, input_slots, slot_ids, carved_from, passes,
                 pass_base, noop_rerun,
                 visits>>

\* one iteration of the inner loop of split_up_tasks
SplitForSlot ==
  /\ pc = "split_for_slot"
  /\ i <= range_len
  /\ i <= Len(time_slots)
  /\ visits' = visits + 1
  /\ LET start_time == time_slots[i][1]
         end_time == time_slots[i][2]
         duration == slot_duration(start_time, end_time)
         task == unscheduled_tasks[entry_idx].task
         NextEntry == /\ pc' = "split_for_entry"
                      /\ entry_idx' = entry_idx + 1
                      /\ i' = 0
                      /\ range_len' = 0
                      /\ remaining_time' = 0
     IN IF can_schedule(remaining_time, duration)
        THEN LET minutes == time_to_schedule(remaining_time, duration)
                 task_end_time == start_time + timedelta(minutes)
                 new_slot == shrink_slot(start_time, task_end_time, end_time)
             IN /\ schedule' = append(schedule,
                       Fragment(task, start_time, task_end_time))
                /\ carved_from' = Append(carved_from, slot_ids[i])
                /\ IF new_slot[1] >= end_time
                   THEN /\ time_slots' = Pop(time_slots, i)
                        /\ slot_ids' = Pop(slot_ids, i)
                        /\ NextEntry
                   ELSE /\ time_slots' = [time_slots EXCEPT ![i] = new_slot]
                        /\ UNCHANGED slot_ids
                        /\ IF remaining_time - minutes <= 0
                           THEN NextEntry
                           ELSE /\ remaining_time' = remaining_time - minutes
                                /\ i' = i + 1
                                /\ UNCHANGED <<pc, entry_idx, range_len>>
        ELSE /\ UNCHANGED <<schedule, carved_from, time_slots, slot_ids>>
             /\ IF remaining_time <= 0
                THEN NextEntry
                ELSE /\ i' = i + 1
                     /\ UNCHANGED <<pc, entry_idx, range_len, remaining_time>>
  /\ UNCHANGED <<tasks, unscheduled_tasks, task_idx, input_slots, passes,
                 pass_base, noop_rerun>>

\* the inner loop of split_up_tasks ran out of indices
SplitSlotsDone ==
  /\ pc = "split_for_slot"
  /\ i > range_len
  /\ pc' = "split_for_entry"
  /\ entry_idx' = entry_idx + 1
  /\ i' = 0
  /\ range_len' = 0
  /\ remaining_time' = 0
  /\ UNCHANGED <<tasks, time_slots, schedule, unscheduled_tasks, task_idx,
                 input_slots, slot_ids, carved_from, passes, pass_base, noop_rerun,
                 visits>>

\* split_up_tasks and schedule_tasks return
SplitReturn ==
  /\ pc = "split_for_entry"
  /\ entry_idx > Len(unscheduled_tasks)
  /\ pc' = "done"
  /\ entry_idx' = 0
  /\ UNCHANGED <<tasks, time_slots, schedule, unscheduled_tasks, task_idx, i,
                 range_len, remaining_time, input_slots, slot_ids, carved_from,
                 passes, pass_base, noop_rerun,
                 visits>>

PassStep ==
  \/ MainForTask
  \/ MainForSlot
  \/ MainAfterSlots
  \/ CallSplit
  \/ SplitForEntry
  \/ SplitForSlot
  \/ SplitSlotsDone
  \/ SplitReturn

\* main(): get_data, then one call of schedule_tasks
Next ==
  \/ get_data
  \/ schedule_tasks
  \/ PassStep

Spec == Init /\ [][Next]_vars

\* ---- views of the state used by the properties --------------------------
InPass == pc \notin {"init", "loaded"}

\* the fragments appended by the running (or last) pass
PassLedger == SubSeq(schedule, pass_base + 1, Len(schedule))

\* minutes of a task not yet granted by the running pass
Remaining(task) == task.duration - Allocated(task.name, PassLedger)

Capacity(slot) == slot_duration(slot[1], slot[2])

PoolHasCapacity == \E s \in 1..Len(time_slots) : Capacity(time_slots[s]) > 0

\* position of the task named n in the allocation order
Pos(n) == CHOOSE k \in 1..Len(tasks) : tasks[k].name = n

FragmentsOf(n) == { p \in 1..Len(schedule) : schedule[p].task.name = n }

\* a further call of schedule_tasks on the same object
Rerun ==
  /\ pc = "done"
  /\ passes < MaxPasses
  /\ noop_rerun' = (/\ time_slots = <<>>
                    /\ \A k \in 1..Len(tasks) : Remaining(tasks[k]) = 0)
  /\ BeginPass

NextRerun ==
  \/ get_data
  \/ schedule_tasks
  \/ PassStep
  \/ Rerun

SpecRerun == Init /\ [][NextRerun]_vars

\* ---- unvalidated files ---------------------------------------------------
\* get_data validates nothing: a file may hold slots of zero or negative
\* width and slots that overlap, in any order
RawMinutes == { timedelta(m) : m \in 0..RawMaxTime }

RawSlotLists ==
  UNION { [1..n -> RawMinutes \X RawMinutes] : n \in 0..RawMaxSlots }

get_data_raw ==
  /\ pc = "init"
  /\ \E ts \in TaskLists, sl \in RawSlotLists :
       /\ tasks' = ts
       /\ time_slots' = sl
       /\ input_slots' = sl
       /\ slot_ids' = [k \in 1..Len(sl) |-> k]
  /\ pc' = "loaded"
  /\ UNCHANGED <<schedule, unscheduled_tasks, task_idx, entry_idx, i,
                 range_len, remaining_time, carved_from, passes, pass_base,
                 noop_rerun, visits>>

NextRaw ==
  \/ get_data_raw
  \/ schedule_tasks
  \/ PassStep

SpecRaw == Init /\ [][NextRaw]_vars

\* ---- properties ----------------------------------------------------------

\* C1: whenever a fragment is appended to the ledger, no task of strictly
\* higher priority than the fragment's task still has remaining duration
\* while a slot of the pool has positive capacity.
C1_HigherPriorityFirst ==
  [][(InPass /\ Len(schedule') = Len(schedule) + 1) =>
       \A k \in 1..Len(tasks) :
          tasks[k].priority > schedule'[Len(schedule')].task.priority =>
            ~(Remaining(tasks[k]) > 0 /\ PoolHasCapacity)]_vars

\* C2: among tasks of equal priority and different due dates, the task with
\* the earlier due date comes first in the allocation order, and once the
\* pass is over the later-due task holds minutes only if the earlier-due
\* task is fully satisfied.
C2_EarlierDueFirst ==
  InPass =>
    \A a, b \in 1..Len(tasks) :
      (tasks[a].priority = tasks[b].priority
         /\ tasks[a].due_date < tasks[b].due_date) =>
        /\ a < b
        /\ (pc = "done" /\ Allocated(tasks[b].name, PassLedger) > 0)
             => Remaining(tasks[a]) = 0

\* C3: at the end of a pass a task has remaining duration only if no slot
\* of the pool has positive capacity left.
C3_SplitAcrossSlots ==
  pc = "done" =>
    \A k \in 1..Len(tasks) : Remaining(tasks[k]) > 0 => ~PoolHasCapacity

\* C4: in every step of a pass, the fragments of each task sum to at most
\* the task's duration, the local remaining_time is the task's duration
\* minus what the ledger grants it and is never negative, recorded
\* remainders are positive, and no task's remaining duration increases.
C4_Bounded ==
  /\ \A k \in 1..Len(tasks) :
        /\ Allocated(tasks[k].name, PassLedger) <= tasks[k].duration
        /\ Remaining(tasks[k]) >= 0
  /\ remaining_time >= 0
  /\ pc \in {"main_for_slot", "main_after_slots"} =>
        remaining_time = Remaining(tasks[task_idx])
  /\ pc = "split_for_slot" =>
        remaining_time = Remaining(unscheduled_tasks[entry_idx].task)
  /\ \A e \in 1..Len(unscheduled_tasks) :
        unscheduled_tasks[e].remaining_time > 0

C4_AllocationBounded ==
  [][/\ C4_Bounded'
     /\ InPass =>
          \A k \in 1..Len(tasks) :
            \E m \in 1..Len(tasks') :
               /\ tasks'[m] = tasks[k]
               /\ Remaining(tasks[k])' <= Remaining(tasks[k])]_vars

\* a task that was split has received exactly its duration
C4_Witness ==
  /\ pc = "done"
  /\ \E k \in 1..Len(tasks) :
        /\ Cardinality(FragmentsOf(tasks[k].name)) = 2
        /\ Remaining(tasks[k]) = 0

\* C5: every fragment lies within the bounds of the input slot it was
\* carved from, is a non-empty half-open interval, fragments carved from
\* the same input slot are pairwise disjoint, and with disjoint input
\* slots no two fragments of the ledger overlap.
C5_FragmentsDisjointInSlot ==
  /\ Len(carved_from) = Len(schedule)
  /\ \A p \in 1..Len(schedule) :
        /\ carved_from[p] \in 1..Len(input_slots)
        /\ input_slots[carved_from[p]][1] <= schedule[p].start_time
        /\ schedule[p].start_time < schedule[p].end_time
        /\ schedule[p].end_time <= input_slots[carved_from[p]][2]
  /\ \A p, q \in 1..Len(schedule) :
        (p # q /\ (carved_from[p] = carved_from[q] \/ Disjoint(input_slots))) =>
          ~Overlap(<<schedule[p].start_time, schedule[p].end_time>>,
                   <<schedule[q].start_time, schedule[q].end_time>>)

\* two fragments carved from one input slot
C5_Witness ==
  \E p, q \in 1..Len(schedule) : p < q /\ carved_from[p] = carved_from[q]

\* C6: at the end of a pass the ledger is in allocation order: a fragment
\* of a later task never precedes a fragment of an earlier task.
C6_LedgerInPriorityOrder ==
  pc = "done" =>
    \A p, q \in 1..Len(schedule) :
      p < q => Pos(schedule[p].task.name) <= Pos(schedule[q].task.name)

\* C7: in the allocation order a task of strictly higher priority comes
\* before every task of strictly lower priority.
C7_PriorityDescending ==
  InPass =>
    \A a, b \in 1..Len(tasks) :
      tasks[a].priority > tasks[b].priority => a < b

\* the sort moved a higher-priority task in front of an earlier input
C7_Witness ==
  /\ pc = "done"
  /\ \E a, b \in 1..Len(tasks) :
        /\ a < b
        /\ tasks[a].priority > tasks[b].priority
        /\ tasks[a].name > tasks[b].name

\* C8: tasks of equal priority and equal due date keep their input order
\* in the allocation order.
C8_StableSort ==
  InPass =>
    \A a, b \in 1..Len(tasks) :
      (/\ a < b
       /\ tasks[a].priority = tasks[b].priority
       /\ tasks[a].due_date = tasks[b].due_date) =>
        tasks[a].name < tasks[b].name

\* two tasks with equal keys went through the sort
C8_Witness ==
  /\ pc = "done"
  /\ \E a, b \in 1..Len(tasks) :
        /\ a < b
        /\ tasks[a].priority = tasks[b].priority
        /\ tasks[a].due_date = tasks[b].due_date

\* C9: with zero slots and at least one task the ledger stays empty, the
\* pass always has a next step until it returns, and at the end every task
\* has its full duration remaining (every task of positive duration is
\* recorded as unscheduled with its full duration).
C9_ZeroSlots ==
  (InPass /\ input_slots = <<>> /\ Len(tasks) >= 1) =>
    /\ schedule = <<>>
    /\ pc # "done" => ENABLED PassStep
    /\ pc = "done" =>
         /\ \A k \in 1..Len(tasks) : Remaining(tasks[k]) = tasks[k].duration
         /\ \A k \in 1..Len(tasks) :
              tasks[k].duration > 0 =>
                \E e \in 1..Len(unscheduled_tasks) :
                  unscheduled_tasks[e] =
                    [task |-> tasks[k], remaining_time |-> tasks[k].duration]

\* a pass over no slots and some task of positive duration has returned
C9_Witness ==
  /\ pc = "done"
  /\ input_slots = <<>>
  /\ \E k \in 1..Len(tasks) : tasks[k].duration > 0

\* C10: a second schedule_tasks call started on fully allocated tasks and
\* an empty pool ends with an empty ledger.
C10_NoopRerunEmptyLedger ==
  (pc = "done" /\ passes >= 2 /\ noop_rerun) => schedule = <<>>

\* upper bound on the steps a pass still has to take: each task costs at
\* most one step to start its walk, one per slot and one to finish it
StepsLeft ==
  LET T == Len(tasks)
      N == Len(input_slots)
      E == Len(unscheduled_tasks)
      SplitAll == 1 + T * (N + 2)
  IN CASE pc = "main_for_task" ->
            SplitAll + 1 + (T - task_idx + 1) * (N + 2)
       [] pc = "main_for_slot" ->
            SplitAll + 1 + (T - task_idx + 1) * (N + 2) - i
       [] pc = "main_after_slots" ->
            SplitAll + 1 + (T - task_idx) * (N + 2) + 1
       [] pc = "split_for_entry" -> 1 + (E - entry_idx + 1) * (N + 2)
       [] pc = "split_for_slot" -> 1 + (E - entry_idx + 1) * (N + 2) - i
       [] OTHER -> 0

\* C11: every pass terminates: until it returns a pass always has a next
\* step, every step strictly lowers a non-negative bound on the steps left,
\* and the inner-loop iterations of each phase (the loop of schedule_tasks,
\* the loop of split_up_tasks) number at most (number of tasks) x (number
\* of slots), although slots are removed during the walk.
C11_PassTerminates ==
  /\ []((InPass /\ pc # "done") => ENABLED PassStep)
  /\ [](StepsLeft >= 0 /\ visits <= Len(tasks) * Len(input_slots))
  /\ [][InPass => StepsLeft' < StepsLeft]_vars

\* a pass that removed slots while walking them and visited slots in
\* split_up_tasks has returned
C11_Witness ==
  /\ pc = "done"
  /\ Len(time_slots) < Len(input_slots)
  /\ visits > 0

\* slots in ascending-start order
Ascending(sl) == \A a, b \in 1..Len(sl) : a < b => sl[a][1] < sl[b][1]

\* C12: the slots are in ascending-start order before the first carve:
\* once a fragment exists the pool is in ascending-start order and the
\* first fragment of the ledger starts at the earliest start of the input
\* slots, whatever the order of the slots in the file.
C12_SlotsNormalized ==
  Len(schedule) >= 1 =>
    /\ Ascending(time_slots)
    /\ \A k \in 1..Len(input_slots) :
          schedule[1].start_time <= input_slots[k][1]

\* a step of an inner loop that appends a fragment
CarveStep ==
  /\ pc \in {"main_for_slot", "split_for_slot"}
  /\ Len(schedule') = Len(schedule) + 1

\* the task whose walk is running
WalkedTask ==
  IF pc = "split_for_slot" THEN unscheduled_tasks[entry_idx].task
  ELSE tasks[task_idx]

\* C13: a carve grants min(remaining, capacity) minutes from the front of
\* the visited slot: the fragment is [start, start + carved) for the walked
\* task, the slot keeps its end and its start advances by the carved
\* amount (a slot that leaves the pool was carved for its whole capacity),
\* and the task's remaining time drops by the carved amount.
C13_CarveIsMin ==
  [][CarveStep =>
       LET slot == time_slots[i]
           carved == Min(remaining_time, Capacity(slot))
           fragment == schedule'[Len(schedule')]
       IN /\ carved <= Capacity(slot)
          /\ fragment = [task |-> WalkedTask, start_time |-> slot[1],
                         end_time |-> slot[1] + carved * SecondsPerMinute]
          /\ IF Len(time_slots') = Len(time_slots)
             THEN time_slots'[i] = <<slot[1] + carved * SecondsPerMinute, slot[2]>>
             ELSE carved = Capacity(slot)
          /\ WalkedTask.duration - Allocated(WalkedTask.name, PassLedger')
               = remaining_time - carved
          /\ pc = "main_for_slot" => remaining_time' = remaining_time - carved]_vars

\* the ledger holds a carve that took less than its slot offered and a
\* carve that took all that was left of its slot
C13_Witness ==
  /\ \E p \in 1..Len(schedule) :
        /\ schedule[p].start_time = input_slots[carved_from[p]][1]
        /\ schedule[p].end_time < input_slots[carved_from[p]][2]
  /\ \E p \in 1..Len(schedule) :
        /\ schedule[p].start_time > input_slots[carved_from[p]][1]
        /\ schedule[p].end_time = input_slots[carved_from[p]][2]

\* C14: with input slots that are mutually disjoint and in ascending-start
\* order, every step leaves the pool mutually disjoint and in
\* ascending-start order: each slot of the new pool is a slot of the old
\* pool with the same end and a start that is not lower, and the slots
\* that remain keep their relative order.
C14_PoolStaysOrdered ==
  [][(pc # "init" /\ Ascending(input_slots) /\ Disjoint(input_slots)) =>
       /\ Ascending(time_slots')
       /\ Disjoint(time_slots')
       /\ Len(slot_ids') = Len(time_slots')
       /\ \A a \in 1..Len(time_slots') :
            \E b \in 1..Len(time_slots) :
               /\ slot_ids[b] = slot_ids'[a]
               /\ time_slots'[a][2] = time_slots[b][2]
               /\ time_slots'[a][1] >= time_slots[b][1]
       /\ \A a, b \in 1..Len(slot_ids') :
            a < b => slot_ids'[a] < slot_ids'[b]]_vars

\* from ordered disjoint slots, a pass removed one slot and shrank another
C14_Witness ==
  /\ pc = "done"
  /\ Ascending(input_slots)
  /\ Disjoint(input_slots)
  /\ Len(time_slots) < Len(input_slots)
  /\ \E s \in 1..Len(time_slots) :
        time_slots[s][1] > input_slots[slot_ids[s]][1]

\* C15: immediately after a carve the carved slot is in the pool if and
\* only if it still has positive capacity; an exhausted slot leaves the
\* pool in the same step, the pool is then shorter by exactly one, and
\* every other slot stays in place unaltered.
C15_ExactFitRemovesSlot ==
  [][CarveStep =>
       LET slot == time_slots[i]
           left == Capacity(slot) - Min(remaining_time, Capacity(slot))
           InPool == \E a \in 1..Len(slot_ids') : slot_ids'[a] = slot_ids[i]
       IN /\ InPool <=> left > 0
          /\ Len(slot_ids') = Len(time_slots')
          /\ IF left > 0
             THEN /\ Len(time_slots') = Len(time_slots)
                  /\ Capacity(time_slots'[i]) = left
                  /\ slot_ids' = slot_ids
                  /\ \A b \in 1..Len(time_slots) :
                       b # i => time_slots'[b] = time_slots[b]
             ELSE /\ Len(time_slots') = Len(time_slots) - 1
                  /\ \A b \in 1..Len(time_slots') :
                       /\ time_slots'[b] = time_slots[IF b < i THEN b ELSE b + 1]
                       /\ slot_ids'[b] = slot_ids[IF b < i THEN b ELSE b + 1]]_vars

\* an exact-fit carve removed a slot that was not the first of the pool
C15_Witness ==
  \E p \in 1..Len(schedule) :
    /\ schedule[p].end_time = input_slots[carved_from[p]][2]
    /\ \A s \in 1..Len(slot_ids) : slot_ids[s] # carved_from[p]
    /\ \E s \in 1..Len(slot_ids) : slot_ids[s] < carved_from[p]

\* C16: every fragment has strictly positive duration; a task of duration 0
\* has no fragment and is not recorded as unscheduled; a slot of zero or
\* negative width is never carved, stays in the pool unmodified, and the
\* pass still always has a next step until it returns.
C16_PositiveFragments ==
  /\ \A p \in 1..Len(schedule) :
        slot_duration(schedule[p].start_time, schedule[p].end_time) > 0
  /\ \A k \in 1..Len(tasks) :
        tasks[k].duration = 0 =>
          /\ FragmentsOf(tasks[k].name) = {}
          /\ \A e \in 1..Len(unscheduled_tasks) :
                unscheduled_tasks[e].task # tasks[k]
  /\ \A k \in 1..Len(input_slots) :
        Capacity(input_slots[k]) <= 0 =>
          /\ \A p \in 1..Len(carved_from) : carved_from[p] # k
          /\ \E s \in 1..Len(time_slots) :
                slot_ids[s] = k /\ time_slots[s] = input_slots[k]
  /\ (InPass /\ pc # "done") => ENABLED PassStep

\* a pass over a task of duration 0 and a slot without width has returned,
\* and a slot behind the slot without width was carved
C16_Witness ==
  /\ pc = "done"
  /\ \E k \in 1..Len(tasks) : tasks[k].duration = 0
  /\ \E k \in 1..Len(input_slots) :
        /\ Capacity(input_slots[k]) <= 0
        /\ \E p \in 1..Len(carved_from) : carved_from[p] > k

\* C17: whenever an inner loop is about to run an iteration, its index
\* refers to a slot of the pool, and the range taken before the walk is
\* still the length of the pool (a walk ends as soon as it pops a slot).
C17_IndexInRange ==
  (pc \in {"main_for_slot", "split_for_slot"}) =>
    /\ i >= 1
    /\ range_len = Len(time_slots)
    /\ i <= range_len => i <= Len(time_slots)

\* a walk reads the second slot of a pool that an earlier walk shortened
C17_Witness ==
  /\ pc \in {"main_for_slot", "split_for_slot"}
  /\ i = 2
  /\ i <= range_len
  /\ Len(time_slots) < Len(input_slots)

\* C18: every step either leaves the ledger unchanged or appends exactly
\* one fragment at its end; fragments already in the ledger are never
\* removed, reordered or modified.
C18_LedgerAppendOnly ==
  [][\/ schedule' = schedule
     \/ /\ Len(schedule') = Len(schedule) + 1
        /\ SubSeq(schedule', 1, Len(schedule)) = schedule]_vars

\* a later task's fragment was appended behind an earlier task's fragment
C18_Witness ==
  /\ Len(schedule) >= 2
  /\ schedule[1].task # schedule[2].task

\* C19: in one pass every task has at most two fragments: at most one while
\* the loop of schedule_tasks runs, and at most one more from
\* split_up_tasks, which only walks tasks recorded as unscheduled, each
\* once; so a second fragment exists only after every task had its turn in
\* the loop of schedule_tasks.
C19_AtMostTwoFragments ==
  InPass =>
    \A k \in 1..Len(tasks) :
      LET n == Cardinality(FragmentsOf(tasks[k].name))
          entries == { e \in 1..Len(unscheduled_tasks) :
                         unscheduled_tasks[e].task = tasks[k] }
      IN /\ n <= 2
         /\ Cardinality(entries) <= 1
         /\ pc \in {"main_for_task", "main_for_slot", "main_after_slots"} =>
              n <= 1
         /\ entries = {} => n <= 1
         /\ \A e \in entries :
              n <= 1 + (IF tasks[k].duration > unscheduled_tasks[e].remaining_time
                        THEN 1 ELSE 0)

\* a task stopped at two fragments although it has time remaining and a
\* slot still has capacity
C19_Witness ==
  /\ pc = "done"
  /\ PoolHasCapacity
  /\ \E k \in 1..Len(tasks) :
        /\ Cardinality(FragmentsOf(tasks[k].name)) = 2
        /\ Remaining(tasks[k]) > 0

====
